---------------------------- MODULE Spec2Model ----------------------------
(***************************************************************************)
(* A model of studip-sync (src/main.py): the recursive fetch of the course *)
(* document trees, the flattening of a tree into a path -> file id map,    *)
(* the download-if-absent synchronisation of the archive, and the          *)
(* selection of a semester with the regeneration of the this-semester      *)
(* links.                                                                  *)
(*                                                                         *)
(* Strings the program computes with (names, titles, paths) are sequences  *)
(* of one-character strings, so that joining, splitting and replacing are  *)
(* computed as the code computes them.  File contents and identifiers are  *)
(* opaque values.  The file system is POSIX: "/" is the only separator.    *)
(***************************************************************************)
EXTENDS Integers, Sequences, FiniteSets, TLC

VARIABLES
    remote,            \* what the Stud.IP server answers
    fs,                \* the file system below the working directory
    current_semester,  \* StudipSync.current_semester when the last process ended
    log,               \* what the last operation did
    runs,              \* operations run so far
    changes,           \* changes of the server since the last operation
    arg,               \* input of the last pure-function application
    ret                \* its result

vars == <<remote, fs, current_semester, log, runs, changes, arg, ret>>

\* Python's None where a string is expected: no string, the empty one included
None == <<"None">>

-----------------------------------------------------------------------------
(* Strings *)

SLASH == "/"
UNDERSCORE == "_"

\* "<" ">" ":" "\"" "\\" "|" "?" "*"
dirty_symbols == {"<", ">", ":", "\"", "\\", "|", "?", "*"}

CleanChar(c) == IF c \in dirty_symbols THEN UNDERSCORE ELSE c

EscapeChar(c) == IF c = SLASH THEN UNDERSCORE ELSE c

\* re.sub(r"[<>:\"\\|?*]", "_", path)
clean_path(path) == [i \in 1..Len(path) |-> CleanChar(path[i])]

\* name.replace("/", "_")
escape_filename(name) == [i \in 1..Len(name) |-> EscapeChar(name[i])]

StartsWithSlash(s) == Len(s) > 0 /\ s[1] = SLASH

EndsWithSlash(s) == Len(s) > 0 /\ s[Len(s)] = SLASH

\* os.path.join(a, b) of posixpath
join2(a, b) ==
    IF StartsWithSlash(b) THEN b
    ELSE IF a = <<>> \/ EndsWithSlash(a) THEN a \o b
    ELSE a \o <<SLASH>> \o b

path_join(a, b, c) == join2(join2(a, b), c)

\* the index of the last "/" of s, 0 when there is none
RECURSIVE LastSlash(_, _)
LastSlash(s, i) ==
    IF i = 0 THEN 0
    ELSE IF s[i] = SLASH THEN i
    ELSE LastSlash(s, i - 1)

RECURSIVE RStripSlash(_)
RStripSlash(s) ==
    IF EndsWithSlash(s) THEN RStripSlash(SubSeq(s, 1, Len(s) - 1)) ELSE s

\* os.path.dirname of posixpath
dirname(p) ==
    LET head == SubSeq(p, 1, LastSlash(p, Len(p)))
    IN  IF head # <<>> /\ RStripSlash(head) # <<>> THEN RStripSlash(head) ELSE head

DOT == <<".">>
ROOT == <<SLASH>>

\* the segments of a path string: what lies between its separators
RECURSIVE Segments(_, _, _)
Segments(s, i, cur) ==
    LET close == IF cur = <<>> \/ cur = DOT THEN <<>> ELSE <<cur>>
    IN  IF i > Len(s) THEN close
        ELSE IF s[i] = SLASH THEN close \o Segments(s, i + 1, <<>>)
        ELSE Segments(s, i + 1, Append(cur, s[i]))

\* the file-system node a path string names, from the working directory
Resolve(s) == (IF StartsWithSlash(s) THEN <<ROOT>> ELSE <<>>) \o Segments(s, 1, <<>>)

-----------------------------------------------------------------------------
(* The file system: a function from the nodes that exist to what they are. *)
(* Symbolic links are nodes of their own and are never traversed: no path  *)
(* the program builds passes through this-semester.                        *)

Dir == [type |-> "dir", content |-> <<>>]
File(content) == [type |-> "file", content |-> content]
Symlink(target) == [type |-> "symlink", content |-> target]

\* the content of a file that was opened for writing and not written
EMPTY == <<>>

\* os.path.exists
exists(f, path) == Resolve(path) \in DOMAIN f

IsDir(f, p) == p \in DOMAIN f /\ f[p].type = "dir"

Prefix(p, n) == SubSeq(p, 1, n)

IsPrefix(p, q) == Len(p) <= Len(q) /\ Prefix(q, Len(p)) = p

\* os.makedirs(path, exist_ok=True): every missing ancestor is created in
\* turn; a component that exists and is no directory raises
RECURSIVE MakeDirsFrom(_, _, _)
MakeDirsFrom(f, p, n) ==
    IF n > Len(p) THEN [ok |-> TRUE, fs |-> f]
    ELSE IF Prefix(p, n) \in DOMAIN f
         THEN IF IsDir(f, Prefix(p, n)) THEN MakeDirsFrom(f, p, n + 1)
              ELSE [ok |-> FALSE, fs |-> f]
         ELSE MakeDirsFrom((Prefix(p, n) :> Dir) @@ f, p, n + 1)

makedirs(f, path) == MakeDirsFrom(f, Resolve(path), 1)

\* open(path, 'w') / open(path, 'wb'): the file is created, or truncated,
\* when it is opened
open_w(f, path) ==
    LET p == Resolve(path)
    IN  IF p = <<>> \/ IsDir(f, p) \/ ~IsDir(f, Prefix(p, Len(p) - 1))
        THEN [ok |-> FALSE, fs |-> f]
        ELSE [ok |-> TRUE, fs |-> (p :> File(EMPTY)) @@ f]

\* f.write(content) on the file opened at path
write(f, path, content) == (Resolve(path) :> File(content)) @@ f

\* shutil.rmtree(path)
rmtree(f, path) ==
    LET p == Resolve(path)
        keep == {q \in DOMAIN f : ~IsPrefix(p, q)}
    IN  [q \in keep |-> f[q]]

\* os.mkdir(path)
mkdir(f, path) ==
    LET p == Resolve(path)
    IN  IF p \in DOMAIN f \/ ~IsDir(f, Prefix(p, Len(p) - 1))
        THEN [ok |-> FALSE, fs |-> f]
        ELSE [ok |-> TRUE, fs |-> (p :> Dir) @@ f]

\* os.symlink(target, path, target_is_directory=True)
symlink(f, target, path) ==
    LET p == Resolve(path)
    IN  IF p \in DOMAIN f \/ ~IsDir(f, Prefix(p, Len(p) - 1))
        THEN [ok |-> FALSE, fs |-> f]
        ELSE [ok |-> TRUE, fs |-> (p :> Symlink(target)) @@ f]

-----------------------------------------------------------------------------
(* The server.  remote is a record:                                        *)
(*   semesters  the collection of /semesters: records [id, title]          *)
(*   courses    the user's courses: records [title, semester, documents],  *)
(*              documents the id of the top folder, or None when the       *)
(*              course has no documents module                             *)
(*   folders    folder id -> [name, is_readable, files, subfolders]: the   *)
(*              ids of the files and folders the server lists for it;      *)
(*              is_readable is "true", "false" or "absent"                 *)
(*   files      file id -> [name, is_downloadable, content]                *)

\* the "modules" of a course without a documents module
NoDocuments == "None"

Req(kind, id) == [kind |-> kind, id |-> id]

FileStub(r, id) == [id |-> id, name |-> r.files[id].name]

FolderStub(r, id) ==
    [id |-> id, name |-> r.folders[id].name, is_readable |-> r.folders[id].is_readable]

\* GET /folder/<id>/files
FolderFiles(r, id) ==
    [i \in 1..Len(r.folders[id].files) |-> FileStub(r, r.folders[id].files[i])]

\* GET /folder/<id>/subfolders, and the "subfolders" of a top folder
FolderSubfolders(r, id) ==
    [i \in 1..Len(r.folders[id].subfolders) |-> FolderStub(r, r.folders[id].subfolders[i])]

\* GET /user/<id>/courses and GET /user/<id>/courses?semester=<id>
RawCourses(r, semester_id) ==
    SelectSeq(r.courses, LAMBDA c : semester_id = None \/ c.semester = semester_id)

\* what get_subfolders returns for a folder it may not read
EmptyFolder == [files |-> <<>>, subfolders |-> <<>>]

IsReadable(folder) == folder.is_readable = "true"

\* the folder get_subfolders returns for a readable folder, with the requests
\* made for it and below it
fetched_folder(folder, files, sub) ==
    [folder |-> [id |-> folder.id, name |-> folder.name,
                 is_readable |-> folder.is_readable,
                 files |-> files, subfolders |-> sub.folders],
     reqs |-> <<Req("subfolders", folder.id), Req("files", folder.id)>> \o sub.reqs]

\* subfolders.append(...) of the loops over subfolder stubs
append_folder(one, rest) ==
    [folders |-> <<one.folder>> \o rest.folders, reqs |-> one.reqs \o rest.reqs]

\* get_subfolders: the folder with its files and subfolders fetched, and the
\* requests made on the way, in order
RECURSIVE get_subfolders(_, _)
RECURSIVE get_subfolders_each(_, _, _)
get_subfolders(r, folder) ==
    IF IsReadable(folder)
    THEN fetched_folder(folder, FolderFiles(r, folder.id),
                        get_subfolders_each(r, FolderSubfolders(r, folder.id), 1))
    ELSE [folder |-> EmptyFolder, reqs |-> <<>>]

get_subfolders_each(r, stubs, i) ==
    IF i > Len(stubs) THEN [folders |-> <<>>, reqs |-> <<>>]
    ELSE append_folder(get_subfolders(r, stubs[i]), get_subfolders_each(r, stubs, i + 1))

NoFolder == [absent |-> TRUE]

\* a course with the top folder get_courses has fetched for it
course_with_top(r, course, id, sub) ==
    [course |-> [title |-> course.title,
                 top_folder |-> [id |-> id, name |-> r.folders[id].name,
                                 is_readable |-> r.folders[id].is_readable,
                                 files |-> FolderFiles(r, id),
                                 subfolders |-> sub.folders]],
     reqs |-> <<Req("top_folder", id), Req("files", id)>> \o sub.reqs]

\* the body of the loop of get_courses: one course with its top folder
get_course(r, course) ==
    IF course.documents = NoDocuments
    THEN [course |-> [title |-> course.title, top_folder |-> NoFolder], reqs |-> <<>>]
    ELSE course_with_top(r, course, course.documents,
                         get_subfolders_each(r, FolderSubfolders(r, course.documents), 1))

\* courses.append(course)
append_course(one, rest) ==
    [courses |-> <<one.course>> \o rest.courses, reqs |-> one.reqs \o rest.reqs]

RECURSIVE get_courses_each(_, _, _)
get_courses_each(r, raw, i) ==
    IF i > Len(raw) THEN [courses |-> <<>>, reqs |-> <<>>]
    ELSE append_course(get_course(r, raw[i]), get_courses_each(r, raw, i + 1))

courses_fetched(each, semester_id) ==
    [courses |-> each.courses,
     reqs |-> <<Req("user", <<>>), Req("courses", semester_id)>> \o each.reqs]

\* get_courses(semester_id) of a process that has not asked for its user id
get_courses(r, semester_id) ==
    courses_fetched(get_courses_each(r, RawCourses(r, semester_id), 1), semester_id)

-----------------------------------------------------------------------------
(* A dict is the sequence of its items [key, value] in insertion order.    *)

HasKey(d, k) == \E i \in 1..Len(d) : d[i].key = k

\* d[k] = v
Put(d, k, v) ==
    IF HasKey(d, k)
    THEN [i \in 1..Len(d) |-> IF d[i].key = k THEN [key |-> k, value |-> v] ELSE d[i]]
    ELSE Append(d, [key |-> k, value |-> v])

RECURSIVE Update(_, _, _)
Update(d, items, i) ==
    IF i > Len(items) THEN d
    ELSE Update(Put(d, items[i].key, items[i].value), items, i + 1)

RECURSIVE PutFiles(_, _, _, _)
PutFiles(d, files, parent_path, i) ==
    IF i > Len(files) THEN d
    ELSE PutFiles(Put(d, parent_path \o <<SLASH>> \o files[i].name, files[i].id),
                  files, parent_path, i + 1)

\* the path get_files hands to the subfolders of folder
child_path(folder, parent_path) == parent_path \o <<SLASH>> \o folder.name

\* get_files(folder, parent_path)
RECURSIVE get_files(_, _)
RECURSIVE get_files_sub(_, _, _, _)
get_files(folder, parent_path) ==
    get_files_sub(PutFiles(<<>>, folder.files, parent_path, 1), folder, parent_path, 1)

get_files_sub(d, folder, parent_path, i) ==
    IF i > Len(folder.subfolders) THEN d
    ELSE get_files_sub(
             Update(d, get_files(folder.subfolders[i], child_path(folder, parent_path)), 1),
             folder, parent_path, i + 1)

\* the files of sync: the file map over the courses that have a top folder
RECURSIVE sync_file_map(_, _, _)
sync_file_map(d, courses, i) ==
    IF i > Len(courses) THEN d
    ELSE IF courses[i].top_folder = NoFolder THEN sync_file_map(d, courses, i + 1)
    ELSE sync_file_map(
             Update(d, get_files(courses[i].top_folder, courses[i].title), 1),
             courses, i + 1)

-----------------------------------------------------------------------------
(* sync.  A run is given a budget: the number of its requests the server   *)
(* answers with status 200; the request after the last of them is answered *)
(* with another status, and get_req raises.  A budget no smaller than the  *)
(* number of requests of the run is a run without transport error.         *)

data_path == DOT
ARCHIVE == <<"a", "r", "c", "h", "i", "v", "e">>
PLACEHOLDER == <<"studip-sync:non-downloadable-file">>

FileReq(kind, id, key, path) == [kind |-> kind, id |-> id, key |-> key, path |-> path]

\* file_path of sync for a key of the file map
file_path_of(key) == clean_path(path_join(data_path, ARCHIVE, key))

Raise(st, status, f) == [st EXCEPT !.status = status, !.fs = f]

Issued(st, req) == [st EXCEPT !.reqs = Append(@, req)]

Answer(st, req) == [st EXCEPT !.reqs = Append(@, req), !.budget = @ - 1]

\* "with open(file_path, 'wb') as f: f.write(self.get_no_parse(...))": the
\* file is opened, then the download is requested
write_download(st, req, content, file_path, opened) ==
    IF ~opened.ok THEN Raise(st, "fs_error", st.fs)
    ELSE IF st.budget = 0 THEN Raise(Issued(st, req), "transport_error", opened.fs)
    ELSE [Answer(st, req) EXCEPT !.fs = write(opened.fs, file_path, content)]

\* "with open(file_path, 'w') as f: f.write(...)" of the placeholder
write_placeholder(st, file_path, opened) ==
    IF ~opened.ok THEN Raise(st, "fs_error", st.fs)
    ELSE [st EXCEPT !.fs = write(opened.fs, file_path, PLACEHOLDER)]

\* what follows the metadata of the file: "if file_meta["is_downloadable"]"
write_file(st, file_meta, key, id, file_path) ==
    IF file_meta.is_downloadable
    THEN write_download(st, FileReq("download", id, key, file_path), file_meta.content,
                        file_path, open_w(st.fs, file_path))
    ELSE write_placeholder(st, file_path, open_w(st.fs, file_path))

\* what follows os.makedirs: the request for the metadata of the file
get_file(r, st, key, id, file_path, made) ==
    IF ~made.ok THEN Raise(st, "fs_error", made.fs)
    ELSE IF st.budget = 0
    THEN Raise(Issued(st, FileReq("file", id, key, file_path)), "transport_error", made.fs)
    ELSE write_file([Answer(st, FileReq("file", id, key, file_path)) EXCEPT !.fs = made.fs],
                    r.files[id], key, id, file_path)

\* the body of "if not os.path.exists(file_path)" for one file; st.reqs holds
\* the requests issued, the one that failed included
download_file(r, st, key, id, file_path) ==
    get_file(r, st, key, id, file_path, makedirs(st.fs, dirname(file_path)))

\* sync_file without "if not os.path.exists(file_path)"
sync_file_always(r, st, key, id) == download_file(r, st, key, id, file_path_of(key))

\* sync_file that fetches again a file whose content on the server differs
sync_file_refresh(r, st, key, id) ==
    LET p == Resolve(file_path_of(key))
    IN  IF exists(st.fs, file_path_of(key))
           /\ (st.fs[p].type = "file" => st.fs[p].content = r.files[id].content)
        THEN st
        ELSE download_file(r, st, key, id, file_path_of(key))

\* sync_file that takes a placeholder for a missing file
sync_file_retry_placeholder(r, st, key, id) ==
    IF exists(st.fs, file_path_of(key))
       /\ st.fs[Resolve(file_path_of(key))] # File(PLACEHOLDER)
    THEN st
    ELSE download_file(r, st, key, id, file_path_of(key))

sync_path(r, st, key, id, file_path) ==
    IF exists(st.fs, file_path) THEN st ELSE download_file(r, st, key, id, file_path)

\* one pass of "for file in files"
sync_file(r, st, key, id) == sync_path(r, st, key, id, file_path_of(key))

RECURSIVE sync_files(_, _, _, _)
sync_files(r, st, files, i) ==
    IF i > Len(files) \/ st.status # "ok" THEN st
    ELSE sync_files(r, sync_file(r, st, files[i].key, files[i].value), files, i + 1)

sync_done(done, files) ==
    [fs |-> done.fs, reqs |-> done.reqs, status |-> done.status,
     raised_in |-> IF done.status = "ok" THEN "" ELSE "sync", files |-> files]

\* the loop over the file map
sync_map(r, f, files, budget) ==
    sync_done(sync_files(r, [fs |-> f, reqs |-> <<>>, status |-> "ok", budget |-> budget],
                         files, 1),
              files)

sync_fetched(r, f, fetched, budget) ==
    IF budget < Len(fetched.reqs)
    THEN [fs |-> f, reqs |-> <<>>, status |-> "transport_error",
          raised_in |-> "get_courses", files |-> <<>>]
    ELSE sync_map(r, f, sync_file_map(<<>>, fetched.courses, 1), budget - Len(fetched.reqs))

\* sync() of a process whose current_semester is semester_id, with use_git off
sync(r, f, semester_id, budget) == sync_fetched(r, f, get_courses(r, semester_id), budget)

-----------------------------------------------------------------------------
(* The current semester, its marker file, and the this-semester links.     *)

CURRENT_SEMESTER_FILE ==
    <<".", "c", "u", "r", "r", "e", "n", "t", "-", "s", "e", "m", "e", "s", "t", "e", "r">>
THIS_SEMESTER == <<"t", "h", "i", "s", "-", "s", "e", "m", "e", "s", "t", "e", "r">>
DOTDOT == <<".", ".">>

Whitespace == {" ", "\n", "\t", "\r"}

RECURSIVE LStrip(_)
LStrip(s) == IF s # <<>> /\ s[1] \in Whitespace THEN LStrip(Tail(s)) ELSE s

RECURSIVE RStrip(_)
RStrip(s) ==
    IF s # <<>> /\ s[Len(s)] \in Whitespace THEN RStrip(SubSeq(s, 1, Len(s) - 1)) ELSE s

\* str.strip()
strip(s) == LStrip(RStrip(s))

marker_path == join2(data_path, CURRENT_SEMESTER_FILE)

\* load_current_semester of a new object: the class default None unless the
\* marker exists
load_current_semester(f) ==
    IF exists(f, marker_path) THEN strip(f[Resolve(marker_path)].content) ELSE None

write_marker(opened, semester_id) ==
    IF ~opened.ok THEN [ok |-> FALSE, fs |-> opened.fs]
    ELSE [ok |-> TRUE, fs |-> write(opened.fs, marker_path, semester_id)]

save_made(made, semester_id) ==
    IF ~made.ok THEN [ok |-> FALSE, fs |-> made.fs]
    ELSE write_marker(open_w(made.fs, marker_path), semester_id)

\* save_current_semester(semester_id), with use_git off
save_current_semester(f, semester_id) == save_made(makedirs(f, data_path), semester_id)

current_semester_path == join2(data_path, THIS_SEMESTER)

\* set([self.escape_filename(course["title"]) for course in courses])
link_names(courses) == {escape_filename(courses[i].title) : i \in 1..Len(courses)}

link_target(course) == path_join(DOTDOT, ARCHIVE, course)

link_path(course) == join2(current_semester_path, course)

\* the loop of os.symlink calls over the set of names
RECURSIVE make_links(_, _)
RECURSIVE make_link(_, _, _)
RECURSIVE make_rest(_, _)
make_links(f, names) ==
    IF names = {} THEN [ok |-> TRUE, fs |-> f]
    ELSE make_link(f, names, CHOOSE c \in names : TRUE)

make_link(f, names, course) ==
    make_rest(symlink(f, link_target(course), link_path(course)), names \ {course})

make_rest(linked, names) == IF ~linked.ok THEN linked ELSE make_links(linked.fs, names)

\* the old directory removed and an empty one made: the first lines of
\* update_links
reset_links_dir(f) ==
    mkdir(IF exists(f, current_semester_path) THEN rmtree(f, current_semester_path) ELSE f,
          current_semester_path)

links_made(linked) == [fs |-> linked.fs, status |-> IF linked.ok THEN "ok" ELSE "fs_error"]

links_fetched(f, fetched, budget) ==
    IF budget < Len(fetched.reqs) THEN [fs |-> f, status |-> "transport_error"]
    ELSE links_made(make_links(f, link_names(fetched.courses)))

links_reset(r, reset, semester_id, budget) ==
    IF ~reset.ok THEN [fs |-> reset.fs, status |-> "fs_error"]
    ELSE links_fetched(reset.fs, get_courses(r, semester_id), budget)

\* update_links() with use_git off, under a budget of answered requests: the
\* directory is removed and made, then the courses are fetched, then linked
update_links(r, f, semester_id, budget) ==
    links_reset(r, reset_links_dir(f), semester_id, budget)

\* semesterNameToMeta: the last semester of a title is the one kept
HasTitle(semesters, title) == \E i \in 1..Len(semesters) : semesters[i].title = title

semester_of(semesters, title) ==
    semesters[CHOOSE i \in 1..Len(semesters) :
                /\ semesters[i].title = title
                /\ \A j \in (i + 1)..Len(semesters) : semesters[j].title # title]

\* select_semester that sets and saves the current semester before it looks the
\* title up
select_semester_save_first(r, f, loaded, semester, chosen, budget) ==
    LET title == IF semester = None /\ Len(chosen) > 0 THEN chosen[1] ELSE semester
        found == HasTitle(r.semesters, title)
        semester_id == IF found THEN semester_of(r.semesters, title).id ELSE title
        saved == save_current_semester(f, semester_id)
        linked == update_links(r, saved.fs, semester_id, budget - 1)
    IN  IF budget = 0
        THEN [fs |-> f, status |-> "transport_error", raised_in |-> "get",
              current_semester |-> loaded]
        ELSE IF ~found
        THEN [fs |-> saved.fs, status |-> "lookup_error", raised_in |-> "select_semester",
              current_semester |-> semester_id]
        ELSE [fs |-> linked.fs, status |-> linked.status,
              raised_in |-> IF linked.status = "ok" THEN "" ELSE "update_links",
              current_semester |-> semester_id]

select_linked(linked, semester_id) ==
    [fs |-> linked.fs, status |-> linked.status,
     raised_in |-> IF linked.status = "ok" THEN "" ELSE "update_links",
     current_semester |-> semester_id]

\* self.save_current_semester(semester_id), then self.update_links()
select_saved(r, saved, semester_id, budget) ==
    IF ~saved.ok
    THEN [fs |-> saved.fs, status |-> "fs_error", raised_in |-> "save_current_semester",
          current_semester |-> semester_id]
    ELSE select_linked(update_links(r, saved.fs, semester_id, budget - 1), semester_id)

\* semester_id = semesterNameToMeta[semester]["id"], and what follows it
select_title(r, f, loaded, title, budget) ==
    IF ~HasTitle(r.semesters, title)
    THEN [fs |-> f, status |-> "lookup_error", raised_in |-> "select_semester",
          current_semester |-> loaded]
    ELSE select_saved(r, save_current_semester(f, semester_of(r.semesters, title).id),
                      semester_of(r.semesters, title).id, budget)

\* select_semester(semester) of a process that loaded `loaded` at its start;
\* chosen is what the chooser returns when it is asked
select_semester(r, f, loaded, semester, chosen, budget) ==
    IF budget = 0
    THEN [fs |-> f, status |-> "transport_error", raised_in |-> "get",
          current_semester |-> loaded]
    ELSE IF semester = None /\ Len(chosen) = 0
    THEN [fs |-> f, status |-> "no_semester_chosen", raised_in |-> "select_semester",
          current_semester |-> loaded]
    ELSE select_title(r, f, loaded, IF semester = None THEN chosen[1] ELSE semester, budget)

-----------------------------------------------------------------------------
(* The servers and the inputs the model draws from.                        *)

MaxRuns == 2        \* commands in a behaviour
MaxChanges == 1     \* changes of the server in a behaviour
MaxFileBudget == 6  \* answered requests of a sync after its tree fetch

S1 == <<"s", "1">>
S2 == <<"s", "2">>
WS == <<"W", "S">>
SS == <<"S", "S">>
XX == <<"X", "X">>

Semesters == <<[id |-> S1, title |-> WS], [id |-> S2, title |-> SS]>>

\* select-semester with a title, which may be no semester's
SemesterArgs == {WS, SS, XX}

\* what the chooser can return: nothing, or one of the titles it was given
Choices(r) == {<<>>} \cup {<<r.semesters[i].title>> : i \in 1..Len(r.semesters)}

C_D == <<"C", "/", "D">>
A_B == <<"A", ":", "B">>
SeminarA == <<"S", "e", "m", "i", "n", "a", "r", " ", "A">>
SeminarB == <<"S", "e", "m", "i", "n", "a", "r", " ", "B">>

Courses ==
    << [title |-> C_D, semester |-> S1, documents |-> "top1"],
       [title |-> A_B, semester |-> S1, documents |-> NoDocuments],
       [title |-> SeminarA, semester |-> S2, documents |-> NoDocuments],
       [title |-> SeminarA, semester |-> S2, documents |-> "top2"],
       [title |-> SeminarB, semester |-> S2, documents |-> NoDocuments] >>

Flags == {"true", "false", "absent"}

AB_pdf == <<"A", ":", "B", "?", ".", "p", "d", "f">>
F2 == <<"f", "2">>
F3 == <<"f", "3">>
G == <<"g">>

FileIds == {"f1", "f2", "f3"}

\* the file whose name, content and flags the server changes
ChangingFiles == {"f1"}

\* the courses the server moves to another semester: 'C/D' and 'Seminar B'
MovingCourses == {i \in 1..Len(Courses) : Courses[i].title \in {C_D, SeminarB}}

Contents == {<<"v1">>, <<"v2">>}

Folders(top_flag, sub_flag) ==
    [id \in {"top1", "sub1", "sub2", "top2"} |->
        CASE id = "top1" -> [name |-> <<"t", "o", "p">>, is_readable |-> top_flag,
                             files |-> <<"f1">>, subfolders |-> <<"sub1">>]
          [] id = "sub1" -> [name |-> <<"s", "u", "b">>, is_readable |-> sub_flag,
                             files |-> <<"f2">>, subfolders |-> <<"sub2">>]
          [] id = "sub2" -> [name |-> <<"d", "e", "e", "p">>, is_readable |-> "true",
                             files |-> <<"f3">>, subfolders |-> <<>>]
          [] id = "top2" -> [name |-> <<"t", "o", "p">>, is_readable |-> "true",
                             files |-> <<>>, subfolders |-> <<>>]]

Files(downloadable) ==
    [id \in FileIds |->
        [name |-> CASE id = "f1" -> AB_pdf [] id = "f2" -> F2 [] id = "f3" -> F3,
         is_downloadable |-> id \in downloadable,
         content |-> <<"v1">>]]

Remote(top_flag, sub_flag, downloadable) ==
    [semesters |-> Semesters, courses |-> Courses,
     folders |-> Folders(top_flag, sub_flag), files |-> Files(downloadable)]

\* the working directory of a fresh installation
EmptyFs == (<<>> :> Dir)

Summary(l) ==
    [op |-> l.op, status |-> l.status, remote |-> l.remote, semester |-> l.semester,
     pre |-> l.pre]

NoRemote == Remote("absent", "absent", {})

NoSummary ==
    [op |-> "none", status |-> "ok", remote |-> NoRemote, semester |-> None, pre |-> EmptyFs]

NoLog ==
    [op |-> "none", status |-> "ok", raised_in |-> "", remote |-> NoRemote,
     semester |-> None, pre |-> EmptyFs, input |-> <<>>, reqs |-> <<>>, files |-> <<>>,
     prev |-> NoSummary]

-----------------------------------------------------------------------------
(* The commands of the CLI, each a process of its own (StudipSync is       *)
(* constructed, the command runs, the process ends), and the changes of    *)
(* the server between them.  log records the last command: op, how it      *)
(* ended (status, and raised_in: the call that raised), the server it ran  *)
(* against, the current semester it loaded, the file system it started     *)
(* from (pre), its input, the file map of a sync with the file and         *)
(* download requests it issued (reqs), and the same of the command before  *)
(* it (prev).                                                              *)

Fresh(remotes) ==
    /\ remote \in remotes
    /\ fs = EmptyFs
    /\ current_semester = None
    /\ log = NoLog
    /\ runs = 0
    /\ changes = 0
    /\ arg = <<>>
    /\ ret = <<>>

\* the budgets of a sync that tell its outcomes apart: the first or the last
\* request of the tree fetch fails, or one of the requests after it, or none
SyncBudgets(r, semester_id) ==
    LET n == Len(get_courses(r, semester_id).reqs)
    IN  {0, n - 1} \cup {n + k : k \in 0..MaxFileBudget}

\* the command has run: what it leaves in the state
Ran(op, run, loaded, input) ==
    /\ fs' = run.fs
    /\ current_semester' = run.current_semester
    /\ log' = [op |-> op, status |-> run.status, raised_in |-> run.raised_in,
               remote |-> remote, semester |-> loaded, pre |-> fs, input |-> input,
               reqs |-> run.reqs, files |-> run.files, prev |-> Summary(log)]
    /\ runs' = runs + 1
    /\ UNCHANGED <<remote, changes, arg, ret>>

\* sync reads current_semester and does not set it
RunSync(loaded, budget) ==
    [current_semester |-> loaded] @@ sync(remote, fs, loaded, budget)

\* studip-sync sync
Sync ==
    /\ runs < MaxRuns
    /\ \E loaded \in {load_current_semester(fs)} :
          \E budget \in SyncBudgets(remote, loaded) :
              Ran("sync", RunSync(loaded, budget), loaded, <<>>)

\* the budgets of a select-semester that tell its outcomes apart: the request
\* for the semesters fails, or the first or the last of the tree fetch of the
\* semester of this title, or none
SelectBudgets(r, title) ==
    LET semester_id == IF HasTitle(r.semesters, title)
                       THEN semester_of(r.semesters, title).id ELSE None
        n == Len(get_courses(r, semester_id).reqs)
    IN  {0, 1, n, n + 1}

\* select_semester issues no request for a file
RunSelect(loaded, semester, chosen, budget) ==
    [reqs |-> <<>>, files |-> <<>>]
        @@ select_semester(remote, fs, loaded, semester, chosen, budget)

Selected(semester, chosen, budget) ==
    /\ runs < MaxRuns
    /\ \E loaded \in {load_current_semester(fs)} :
          Ran("select", RunSelect(loaded, semester, chosen, budget), loaded,
              <<semester, chosen>>)

\* studip-sync select-semester <semester>
SelectSemester ==
    \E semester \in SemesterArgs :
        \E budget \in SelectBudgets(remote, semester) :
            Selected(semester, <<>>, budget)

\* studip-sync select-semester, the chooser asked
ChooseSemester ==
    \E chosen \in Choices(remote) :
        \E budget \in SelectBudgets(remote, IF chosen = <<>> THEN None ELSE chosen[1]) :
            Selected(None, chosen, budget)

Changed(r) ==
    /\ runs < MaxRuns
    /\ changes < MaxChanges
    /\ remote' = r
    /\ changes' = changes + 1
    /\ UNCHANGED <<fs, current_semester, log, runs, arg, ret>>

\* the server: a file gets a new content
ChangeContent ==
    \E id \in ChangingFiles, c \in Contents :
        /\ c # remote.files[id].content
        /\ Changed([remote EXCEPT !.files[id].content = c])

\* the server: a file becomes downloadable, or stops being so
ChangeDownloadable ==
    \E id \in ChangingFiles :
        Changed([remote EXCEPT !.files[id].is_downloadable = ~@])

\* the server: a file is renamed
RenameFile ==
    \E id \in ChangingFiles :
        Changed([remote EXCEPT !.files[id].name = IF @ = G THEN F2 ELSE G])

\* the server: a file is deleted from its folder
DeleteFile ==
    \E id \in ChangingFiles, fid \in DOMAIN remote.folders :
        /\ \E i \in 1..Len(remote.folders[fid].files) : remote.folders[fid].files[i] = id
        /\ Changed([remote EXCEPT !.folders[fid].files = SelectSeq(@, LAMBDA x : x # id)])

\* the server: a course moves to the other semester
MoveCourse ==
    \E i \in MovingCourses :
        Changed([remote EXCEPT !.courses[i].semester = IF @ = S1 THEN S2 ELSE S1])

-----------------------------------------------------------------------------
(* Spec: the archive under sync and a changing server.                     *)

InitRemotes == {Remote("true", "true", d) : d \in {FileIds, {"f2", "f3"}}}

Init == Fresh(InitRemotes)

Next ==
    \/ Sync
    \/ ChangeContent
    \/ ChangeDownloadable
    \/ RenameFile
    \/ DeleteFile

Spec == Init /\ [][Next]_vars

(* SpecTree: sync over the document trees of every readability.            *)

TreeRemotes == {Remote(t, s, FileIds) : t \in Flags, s \in Flags}

InitTree == Fresh(TreeRemotes)

SpecTree == InitTree /\ [][Next]_vars

(* SpecSemester: the selection of the semester and the links.              *)

InitSemester == Fresh({Remote("true", "true", FileIds)})

NextSemester ==
    \/ SelectSemester
    \/ ChooseSemester
    \/ MoveCourse

SpecSemester == InitSemester /\ [][NextSemester]_vars

-----------------------------------------------------------------------------
(* SpecFlatten: get_files applied to a fetched folder tree and a parent    *)
(* path.  The files of a tree have names of their own, so that no two of   *)
(* them can meet in one key.                                               *)

MaxDepth == 2    \* folders below the root of a tree, one in the other

Course == <<"C", "o", "u", "r", "s", "e">>
ParentPaths == {Course, C_D}

FolderNames == {<<"s", "u", "b">>, <<"x">>}
RootName == <<"r", "o", "o", "t">>

Digit(d) == CASE d = 0 -> "1" [] d = 1 -> "2" [] d = 2 -> "3" [] OTHER -> "9"

\* the file lists of a folder d levels below the root: none, f<d+1>, or
\* f<d+1> and g<d+1>
FileLists(d) ==
    LET f == [id |-> <<"id", Digit(d)>>, name |-> <<"f", Digit(d)>>]
        g == [id |-> <<"jd", Digit(d)>>, name |-> <<"g", Digit(d)>>]
    IN  {<<>>, <<f>>, <<f, g>>}

FetchedFolder(name, files, subfolders) ==
    [id |-> name, name |-> name, is_readable |-> "true",
     files |-> files, subfolders |-> subfolders]

\* the chains of folders from depth d down to MaxDepth, named from names
RECURSIVE Chains(_, _)
Chains(d, names) ==
    LET leaves == {FetchedFolder(n, fl, <<>>) : n \in names, fl \in FileLists(d)}
    IN  IF d >= MaxDepth THEN leaves
        ELSE leaves \cup
             {FetchedFolder(n, fl, <<sub>>) :
                 n \in names, fl \in FileLists(d), sub \in Chains(d + 1, FolderNames)}

\* a root over two folders of different names
Forks ==
    {FetchedFolder(RootName, fl, <<a, b>>) :
        fl \in FileLists(0),
        a \in {FetchedFolder(<<"s", "u", "b">>, x, <<>>) : x \in FileLists(1)},
        b \in {FetchedFolder(<<"x">>, x, <<>>) : x \in FileLists(1)}}

Trees == Chains(0, {RootName}) \cup Forks

InitFlatten ==
    /\ arg \in [folder : Trees, parent_path : ParentPaths]
    /\ ret = [done |-> FALSE, files |-> <<>>]
    /\ remote = NoRemote
    /\ fs = EmptyFs
    /\ current_semester = None
    /\ log = NoLog
    /\ runs = 0
    /\ changes = 0

Flatten ==
    /\ ~ret.done
    /\ ret' = [done |-> TRUE, files |-> get_files(arg.folder, arg.parent_path)]
    /\ UNCHANGED <<remote, fs, current_semester, log, runs, changes, arg>>

NextFlatten == Flatten

SpecFlatten == InitFlatten /\ [][NextFlatten]_vars

Items(d) == {d[i] : i \in 1..Len(d)}

\* the map the flattening is to give: a file of the folder under
\* parent_path/<its name>, a file below under the names of the subfolders
\* that lead to it
RECURSIVE FlatMap(_, _)
FlatMap(folder, parent_path) ==
    {[key |-> parent_path \o <<SLASH>> \o folder.files[i].name,
      value |-> folder.files[i].id] : i \in 1..Len(folder.files)}
    \cup UNION {FlatMap(folder.subfolders[i],
                        parent_path \o <<SLASH>> \o folder.subfolders[i].name) :
                   i \in 1..Len(folder.subfolders)}

ExampleTree ==
    FetchedFolder(RootName, <<[id |-> <<"id", "1">>, name |-> <<"f", "1">>]>>,
        <<FetchedFolder(<<"s", "u", "b">>,
                        <<[id |-> <<"id", "2">>, name |-> <<"f", "2">>]>>, <<>>)>>)

ExampleMap ==
    {[key |-> Course \o <<SLASH, "f", "1">>, value |-> <<"id", "1">>],
     [key |-> Course \o <<SLASH, "s", "u", "b", SLASH, "f", "2">>, value |-> <<"id", "2">>]}

\* C4: flatten(root, P) maps each file of the root to P/<file name> and each
\* file reached through the subfolders S1, ..., Sk to
\* P/<S1 name>/.../<Sk name>/<file name>, with the file's id as value; the
\* tree root{f1, sub{f2}} under "Course" gives Course/f1 and Course/sub/f2.
C4_FlatteningCorrect ==
    ret.done =>
        /\ Items(ret.files) = FlatMap(arg.folder, arg.parent_path)
        /\ (arg.folder = ExampleTree /\ arg.parent_path = Course
               => Items(ret.files) = ExampleMap)

-----------------------------------------------------------------------------
(* Properties of sync.                                                     *)

AfterSync == log.op = "sync"

\* the command before the last was a sync against the same server and current
\* semester that ended with the given status
AfterSyncThat(status) ==
    /\ AfterSync
    /\ log.prev.op = "sync"
    /\ log.prev.status = status
    /\ log.prev.remote = log.remote
    /\ log.prev.semester = log.semester

IsFile(f, p) == p \in DOMAIN f /\ f[p].type = "file"

\* the nodes of the file map of the last sync
MapPaths == {Resolve(file_path_of(log.files[i].key)) : i \in 1..Len(log.files)}

RequestedPaths == {Resolve(log.reqs[i].path) : i \in 1..Len(log.reqs)}

\* the i-th request of the last sync was answered: it is not the one that
\* raised the transport error
Answered(i) == ~(log.status = "transport_error" /\ i = Len(log.reqs))

\* C1: a second sync against the unchanged server, after one that completed,
\* issues no file-metadata and no download request and leaves the archive
\* with the same paths and contents.
C1_Idempotent ==
    AfterSyncThat("ok") => log.reqs = <<>> /\ fs = log.pre

C1_Witness ==
    /\ AfterSyncThat("ok")
    /\ log.status = "ok"
    /\ log.prev.pre # log.pre
    /\ \E p \in MapPaths : IsFile(fs, p)

\* a budget no request of a sync exceeds
NoFailure(r, semester_id) ==
    Len(get_courses(r, semester_id).reqs)
        + 2 * Len(sync_file_map(<<>>, get_courses(r, semester_id).courses, 1))

\* C2: a sync that aborted on a transport error, run again to completion
\* against the same server, leaves the archive a single sync without failure
\* would have left from the same start: every path of the file map holds the
\* complete download or the placeholder, and what was written before the
\* abort is kept.
C2_Resumable ==
    AfterSyncThat("transport_error") /\ log.status = "ok" =>
        /\ fs = sync(log.remote, log.prev.pre, log.semester,
                     NoFailure(log.remote, log.semester)).fs
        /\ \A p \in DOMAIN log.pre : p \in DOMAIN fs /\ fs[p] = log.pre[p]

\* C6: a file whose path is absent and whose metadata says it is not
\* downloadable gets no download request and the placeholder as content; on
\* a later sync a path that holds the placeholder gets no request and keeps
\* it, also when the server has made the file downloadable.
C6_Placeholder ==
    AfterSync =>
        /\ \A i \in 1..Len(log.reqs) :
              (/\ log.reqs[i].kind = "file"
               /\ ~log.remote.files[log.reqs[i].id].is_downloadable
               /\ Answered(i))
              => /\ Resolve(log.reqs[i].path) \notin DOMAIN log.pre
                 /\ \A j \in 1..Len(log.reqs) :
                       log.reqs[j].kind = "download" => log.reqs[j].path # log.reqs[i].path
                 /\ fs[Resolve(log.reqs[i].path)] = File(PLACEHOLDER)
        /\ \A p \in DOMAIN log.pre :
              log.pre[p] = File(PLACEHOLDER)
              => p \notin RequestedPaths /\ fs[p] = File(PLACEHOLDER)

\* a sync has met the placeholder of a file that is downloadable by now
C6_Witness ==
    /\ AfterSync
    /\ log.status = "ok"
    /\ \E i \in 1..Len(log.files) :
          LET p == Resolve(file_path_of(log.files[i].key))
          IN  /\ p \in DOMAIN log.pre
              /\ log.pre[p] = File(PLACEHOLDER)
              /\ log.remote.files[log.files[i].value].is_downloadable

\* C9: a path that exists when a sync starts has the same content when the
\* sync ends, is not removed, and gets no metadata and no download request,
\* whatever the server has changed.
C9_WriteOnce ==
    AfterSync =>
        \A p \in DOMAIN log.pre :
            /\ p \in DOMAIN fs
            /\ fs[p] = log.pre[p]
            /\ p \notin RequestedPaths

\* a sync has met a file whose content on the server is another by now
C9_Witness ==
    /\ AfterSync
    /\ log.status = "ok"
    /\ \E i \in 1..Len(log.files) :
          LET p == Resolve(file_path_of(log.files[i].key))
          IN  /\ IsFile(log.pre, p)
              /\ log.pre[p].content \in Contents
              /\ log.pre[p].content # log.remote.files[log.files[i].value].content

-----------------------------------------------------------------------------
(* Properties of the tree fetch and of the paths of sync.                  *)

Forbidden == dirty_symbols \cup {SLASH}

SanitizeChar(c) == IF c \in Forbidden THEN UNDERSCORE ELSE c

\* a name as one path segment: the forbidden characters and the separator
\* replaced by "_"
SanitizedName(name) == [i \in 1..Len(name) |-> SanitizeChar(name[i])]

\* the names get_files joins into the keys of a folder's files: items
\* [names, id], names being the names from the parent path down to the file
RECURSIVE KeyNames(_, _)
KeyNames(folder, parents) ==
    {[names |-> Append(parents, folder.files[i].name), id |-> folder.files[i].id] :
        i \in 1..Len(folder.files)}
    \cup UNION {KeyNames(folder.subfolders[i], Append(parents, folder.name)) :
                   i \in 1..Len(folder.subfolders)}

RECURSIVE JoinNames(_)
JoinNames(names) ==
    IF Len(names) = 1 THEN names[1]
    ELSE names[1] \o <<SLASH>> \o JoinNames(Tail(names))

\* the names behind the keys of the file map of the last sync
SyncKeyNames ==
    LET courses == get_courses(log.remote, log.semester).courses
    IN  UNION {IF courses[i].top_folder = NoFolder THEN {}
               ELSE KeyNames(courses[i].top_folder, <<courses[i].title>>) :
                  i \in 1..Len(courses)}

\* the nodes the last sync created
Created == DOMAIN fs \ DOMAIN log.pre

C_D_A_B_pdf == <<ARCHIVE, <<"C", "_", "D">>, <<"A", "_", "B", "_", ".", "p", "d", "f">>>>

\* C3: the path sync creates for a file is the sequence of the course title,
\* the folder names and the file name, one segment per name, each forbidden
\* character and each separator inside a name replaced by "_": no created
\* node holds a forbidden character, no name spans two directories, and
\* 'A:B?.pdf' under course 'C/D' is created at archive/C_D/A_B_.pdf.
C3_PathSanitized ==
    AfterSync =>
        /\ \A i \in 1..Len(log.reqs) :
              \E item \in SyncKeyNames :
                  /\ JoinNames(item.names) = log.reqs[i].key
                  /\ item.id = log.reqs[i].id
                  /\ Resolve(log.reqs[i].path)
                        = <<ARCHIVE>> \o [n \in 1..Len(item.names) |->
                                             SanitizedName(item.names[n])]
        /\ \A p \in Created : \A n \in 1..Len(p) : \A k \in 1..Len(p[n]) :
              p[n][k] \notin dirty_symbols
        /\ \A i \in 1..Len(log.reqs) :
              (/\ log.reqs[i].key = C_D \o <<SLASH>> \o AB_pdf
               /\ log.reqs[i].kind = "download"
               /\ Answered(i))
              => IsFile(fs, C_D_A_B_pdf)

\* the ids of the files the server lists for a folder and the folders below it
RECURSIVE FilesBelow(_, _)
FilesBelow(r, id) ==
    {r.folders[id].files[i] : i \in 1..Len(r.folders[id].files)}
    \cup UNION {FilesBelow(r, r.folders[id].subfolders[i]) :
                   i \in 1..Len(r.folders[id].subfolders)}

\* C5: a folder, the root folder of a course or a nested one, whose
\* is_readable is false or absent gives the file map of sync no file of its
\* own and none of its subfolders, whatever the server lists for it.
C5_UnreadableContributesNothing ==
    AfterSync =>
        \A id \in DOMAIN log.remote.folders :
            log.remote.folders[id].is_readable # "true"
            => \A i \in 1..Len(log.files) :
                  log.files[i].value \notin FilesBelow(log.remote, id)

-----------------------------------------------------------------------------
(* Properties of the selection of the semester and of the links.           *)

AfterSelect == log.op = "select"

LinksDir == Resolve(current_semester_path)

\* what a file system holds below this-semester
Below(f) == {p \in DOMAIN f : IsPrefix(LinksDir, p) /\ p # LinksDir}

LinksOf(f) == [p \in Below(f) |-> f[p]]

\* the node a relative link target names from the directory dir
RECURSIVE Walk(_, _, _)
Walk(dir, segs, i) ==
    IF i > Len(segs) THEN dir
    ELSE IF segs[i] = DOTDOT
         THEN Walk(IF dir = <<>> THEN dir ELSE SubSeq(dir, 1, Len(dir) - 1), segs, i + 1)
         ELSE Walk(Append(dir, segs[i]), segs, i + 1)

LinkedNode(link, target) == Walk(SubSeq(link, 1, Len(link) - 1), Segments(target, 1, <<>>), 1)

\* the directory in which sync stores the files of a course of this title:
\* that of file_path for a key <title>/<name>
ArchiveDirOf(title) == Resolve(dirname(file_path_of(title \o <<SLASH, "n">>)))

\* the titles of the courses of the current semester
CurrentTitles ==
    LET raw == RawCourses(log.remote, current_semester)
    IN  {raw[i].title : i \in 1..Len(raw)}

\* C7: after a relink that completes, this-semester holds one entry per
\* distinct title of the courses of the current semester and nothing else,
\* each entry a relative directory link to the archive directory in which
\* sync stores that course's files.
C7_RelinkResult ==
    AfterSelect /\ log.status = "ok" =>
        /\ Cardinality(Below(fs)) = Cardinality(CurrentTitles)
        /\ \A title \in CurrentTitles :
              \E p \in Below(fs) :
                  /\ Len(p) = Len(LinksDir) + 1
                  /\ fs[p].type = "symlink"
                  /\ ~StartsWithSlash(fs[p].content)
                  /\ LinkedNode(p, fs[p].content) = ArchiveDirOf(title)

SelectionFails ==
    /\ AfterSelect
    /\ log.raised_in # "get"
    /\ \/ log.input[1] # None /\ ~HasTitle(log.remote.semesters, log.input[1])
       \/ log.input[1] = None /\ log.input[2] = <<>>

MarkerOf(f) ==
    IF Resolve(marker_path) \in DOMAIN f THEN <<f[Resolve(marker_path)]>> ELSE <<>>

\* C8: select_semester with a title that is no semester's, or without a
\* title when the chooser returns no choice, fails and changes neither the
\* marker file nor the current semester in memory.
C8_SelectionFailure ==
    SelectionFails =>
        /\ log.status \in {"lookup_error", "no_semester_chosen"}
        /\ MarkerOf(fs) = MarkerOf(log.pre)
        /\ current_semester = log.semester

\* a selection has failed with a semester selected
C8_Witness ==
    /\ SelectionFails
    /\ log.input[1] = XX
    /\ log.semester # None
    /\ MarkerOf(log.pre) # <<>>

\* C10: relink fetches the courses before it deletes this-semester: when the
\* course fetch aborts with a transport error, the directory still exists
\* and holds the links it held before the call.
C10_RelinkOrdering ==
    (/\ AfterSelect
     /\ log.status = "transport_error"
     /\ log.raised_in = "update_links"
     /\ LinksDir \in DOMAIN log.pre)
    => LinksDir \in DOMAIN fs /\ LinksOf(fs) = LinksOf(log.pre)

=============================================================================
